---- MODULE Spec2Model ----
(***************************************************************************)
(* A model of dirclass/core.py: the DirClass facade over a directory, its  *)
(* factory dirclass(), the subdirectory index built by __post_init__, the  *)
(* dynamic accessor __getattr__, and the helpers _ensure_patterns,         *)
(* _iter_files, _filter_files and _sanitize_attribute_name.                *)
(*                                                                         *)
(* A Python str is a sequence of one-character strings; a Path below the   *)
(* root is the sequence of its components.                                 *)
(***************************************************************************)
EXTENDS Integers, Sequences, FiniteSets, TLC

VARIABLES
    pc,                  \* "start" | "indexing" | "ready" | "returned" | "error",
                         \* and "filter" | "filtered" for _filter_files on its own
    rootKind,            \* what the resolved path is: "missing" | "file" | "dir"
    args,                \* the arguments recursive and file_types given to dirclass()
    fs,                  \* the tree below the root: node id -> [parent, name, kind]
    recursive,           \* DirClass.recursive
    default_file_types,  \* DirClass.default_file_types
    _subdir_name_to_path,  \* DirClass._subdir_name_to_path: key -> node id of the child
    idx,                 \* position of __post_init__'s loop in root.iterdir()
    indexFailed,         \* __post_init__ ran into its except branch
    result,              \* what the last call returned or raised
    files,               \* _filter_files: its argument files
    patterns,            \* _filter_files: its argument patterns
    matched              \* _filter_files: its return value

vars == <<pc, rootKind, args, fs, recursive, default_file_types,
          _subdir_name_to_path, idx, indexFailed, result, files, patterns, matched>>

(***************************************************************************)
(* Characters and strings                                                  *)
(***************************************************************************)
LowerSeq == <<"a","b","c","d","e","f","g","h","i","j","k","l","m",
              "n","o","p","q","r","s","t","u","v","w","x","y","z">>

UpperSeq == <<"A","B","C","D","E","F","G","H","I","J","K","L","M",
              "N","O","P","Q","R","S","T","U","V","W","X","Y","Z">>

DigitSeq == <<"0","1","2","3","4","5","6","7","8","9">>

Range(s) == {s[i] : i \in DOMAIN s}

\* str.isdigit, on ASCII
IsDigit(ch) == ch \in Range(DigitSeq)

\* str.isalnum, on ASCII
IsAlnum(ch) == ch \in Range(LowerSeq) \cup Range(UpperSeq) \cup Range(DigitSeq)

\* str.lower on one character
LowerChar(ch) ==
    IF ch \in Range(UpperSeq)
    THEN LowerSeq[CHOOSE i \in DOMAIN UpperSeq : UpperSeq[i] = ch]
    ELSE ch

\* str.lower
Lower(s) == [i \in DOMAIN s |-> LowerChar(s[i])]

\* "__" in s
HasDoubleUnderscore(s) ==
    \E i \in 1..(Len(s) - 1) : s[i] = "_" /\ s[i + 1] = "_"

\* s.replace("__", "_"): non-overlapping occurrences, left to right
RECURSIVE ReplaceDouble(_)
ReplaceDouble(s) ==
    IF Len(s) < 2 THEN s
    ELSE IF s[1] = "_" /\ s[2] = "_"
         THEN <<"_">> \o ReplaceDouble(SubSeq(s, 3, Len(s)))
         ELSE <<s[1]>> \o ReplaceDouble(Tail(s))

\* while "__" in cleaned: cleaned = cleaned.replace("__", "_")
RECURSIVE Collapse(_)
Collapse(s) == IF HasDoubleUnderscore(s) THEN Collapse(ReplaceDouble(s)) ELSE s

\* _sanitize_attribute_name
_sanitize_attribute_name(name) ==
    IF name = <<>> THEN <<>>
    ELSE LET cleaned == [i \in DOMAIN name |->
                            IF IsAlnum(name[i]) \/ name[i] = "_" THEN name[i] ELSE "_"]
             prefixed == IF IsDigit(cleaned[1]) THEN <<"_">> \o cleaned ELSE cleaned
         IN  Collapse(prefixed)

\* name.split('.')[-1]
RECURSIVE LastSegment(_)
LastSegment(name) ==
    IF \E i \in DOMAIN name : name[i] = "."
    THEN LET i == CHOOSE j \in DOMAIN name : name[j] = "."
         IN  LastSegment(SubSeq(name, i + 1, Len(name)))
    ELSE name

\* candidates.append(x) unless x is already in candidates
AppendNew(cands, x) == IF x \in Range(cands) THEN cands ELSE Append(cands, x)

\* The candidate keys of one child directory, in the order __post_init__ tries them
RECURSIVE CandidatesOf(_, _)
CandidatesOf(nms, cands) ==
    IF nms = <<>> THEN cands
    ELSE LET nm == Head(nms)
         IN  IF nm = <<>>              \* "if not nm": None and "" alike
             THEN CandidatesOf(Tail(nms), cands)
             ELSE LET c1 == AppendNew(cands, nm)
                      lower_nm == Lower(nm)
                      c2 == IF lower_nm # <<>> THEN AppendNew(c1, lower_nm) ELSE c1
                  IN  CandidatesOf(Tail(nms), c2)

Candidates(childName) ==
    LET name_full == _sanitize_attribute_name(childName)
        name_tail == IF \E i \in DOMAIN childName : childName[i] = "."
                     THEN _sanitize_attribute_name(LastSegment(childName))
                     ELSE <<>>             \* None: skipped like ""
    IN  CandidatesOf(<<name_full, name_tail>>, <<>>)

(***************************************************************************)
(* Glob patterns                                                           *)
(*                                                                         *)
(* A value passed as file_types is None, a str or a sequence of str:       *)
(* [t |-> "none"], [t |-> "str", v |-> s], [t |-> "seq", v |-> <<s, ..>>]. *)
(***************************************************************************)
Star == <<"*">>

PNone == [t |-> "none", v |-> <<>>]

PStr(s) == [t |-> "str", v |-> s]

PSeq(q) == [t |-> "seq", v |-> q]

\* Python truthiness of a file_types value: None, "" and [] are falsy
Truthy(p) == p.t # "none" /\ p.v # <<>>

\* "a or b"
PyOr(a, b) == IF Truthy(a) THEN a ELSE b

\* _ensure_patterns: always a list of str
_ensure_patterns(p) ==
    IF p.t = "none" THEN <<Star>>
    ELSE IF p.t = "str" THEN <<p.v>>
    ELSE IF p.v # <<>> THEN p.v ELSE <<Star>>

\* fnmatch.translate: the index of the "]" closing the class opened by pat[1] = "[",
\* or 0 when the class is not closed and "[" is a literal
ClassEnd(pat) ==
    LET n  == Len(pat)
        j1 == IF 2 <= n /\ pat[2] = "!" THEN 3 ELSE 2
        j2 == IF j1 <= n /\ pat[j1] = "]" THEN j1 + 1 ELSE j1
        closing == {j \in j2..n : pat[j] = "]"}
    IN  IF closing = {} THEN 0 ELSE CHOOSE j \in closing : \A k \in closing : j <= k

\* fnmatch.fnmatch(name, pat) on a POSIX system (os.path.normcase is the identity):
\* "*" any run of characters, "?" one character, "[seq]" / "[!seq]" a character class
\* (ranges "a-z" inside a class are not modelled; no pattern used here has "-").
RECURSIVE Fnmatch(_, _)
Fnmatch(name, pat) ==
    IF pat = <<>> THEN name = <<>>
    ELSE LET c    == Head(pat)
             rest == Tail(pat)
         IN  IF c = "*"
             THEN \E k \in 0..Len(name) : Fnmatch(SubSeq(name, k + 1, Len(name)), rest)
             ELSE IF c = "?"
             THEN name # <<>> /\ Fnmatch(Tail(name), rest)
             ELSE IF c = "[" /\ ClassEnd(pat) # 0
             THEN LET j     == ClassEnd(pat)
                      stuff == SubSeq(pat, 2, j - 1)
                      neg   == stuff[1] = "!"
                      chars == Range(IF neg THEN Tail(stuff) ELSE stuff)
                  IN  /\ name # <<>>
                      /\ (Head(name) \in chars) # neg
                      /\ Fnmatch(Tail(name), SubSeq(pat, j + 1, Len(pat)))
             ELSE name # <<>> /\ Head(name) = c /\ Fnmatch(Tail(name), rest)

\* Path.name: the base name of a path
BaseName(path) == path[Len(path)]

\* MatchFirst without its break: f is appended once for every pattern it matches
RECURSIVE MatchFirstNoBreak(_, _)
MatchFirstNoBreak(f, pats) ==
    IF pats = <<>> THEN <<>>
    ELSE (IF Fnmatch(BaseName(f), Head(pats)) THEN <<f>> ELSE <<>>)
         \o MatchFirstNoBreak(f, Tail(pats))

\* The inner loop of _filter_files: the first pattern that matches appends f and breaks
RECURSIVE MatchFirst(_, _)
MatchFirst(f, pats) ==
    IF pats = <<>> THEN <<>>
    ELSE IF Fnmatch(BaseName(f), Head(pats)) THEN <<f>>
    ELSE MatchFirst(f, Tail(pats))

\* The outer loop of _filter_files
RECURSIVE FilterLoop(_, _)
FilterLoop(fl, pats) ==
    IF fl = <<>> THEN <<>>
    ELSE MatchFirst(Head(fl), pats) \o FilterLoop(Tail(fl), pats)

\* _filter_files
_filter_files(fl, pats) ==
    IF pats = <<>> \/ pats = <<Star>> THEN fl
    ELSE FilterLoop(fl, pats)

(***************************************************************************)
(* The directory tree below the root.  Node 0 is the root; fs[i] is the    *)
(* i-th entry the file system lists, with its parent directory, its name   *)
(* and its kind.  A directory lists its entries in the order of their ids. *)
(***************************************************************************)
Nodes == DOMAIN fs

\* Path.is_dir, Path.is_file
IsDir(n) == fs[n].kind = "dir"

IsFile(n) == fs[n].kind = "file"

\* The path of node n relative to the root
RECURSIVE PathOf(_)
PathOf(n) == IF n = 0 THEN <<>> ELSE Append(PathOf(fs[n].parent), fs[n].name)

\* The ids in S in increasing order
RECURSIVE SortedSeq(_)
SortedSeq(S) ==
    IF S = {} THEN <<>>
    ELSE LET m == CHOOSE x \in S : \A y \in S : x <= y
         IN  <<m>> \o SortedSeq(S \ {m})

\* Path.iterdir: the entries directly inside d
IterDir(d) == SortedSeq({n \in Nodes : fs[n].parent = d})

\* Path.rglob("*"): the entries of d, then those of each directory below it
RECURSIVE RGlob(_)
RECURSIVE RGlobEach(_)
RGlob(d) == IterDir(d) \o RGlobEach(SelectSeq(IterDir(d), IsDir))
RGlobEach(ds) == IF ds = <<>> THEN <<>> ELSE RGlob(Head(ds)) \o RGlobEach(Tail(ds))

\* _iter_files that ignores the recursion flag and always walks the whole tree
_iter_files_always_recursive(d, rec) ==
    LET found == SelectSeq(RGlob(d), IsFile)
    IN  [i \in DOMAIN found |-> PathOf(found[i])]

\* _iter_files: the paths of the files under d
_iter_files(d, rec) ==
    LET found == SelectSeq(IF rec THEN RGlob(d) ELSE IterDir(d), IsFile)
    IN  [i \in DOMAIN found |-> PathOf(found[i])]

(***************************************************************************)
(* The facade                                                              *)
(***************************************************************************)
\* The names normal attribute lookup finds on a DirClass instance: its dataclass
\* fields and its methods (a candidate key never holds "__", so the dunder names
\* of object and of the dataclass cannot collide with one)
BuiltinMembers ==
    { <<"a","l","l">>,
      <<"r","e","a","d","_","a","l","l">>,
      <<"r","o","o","t">>,
      <<"r","e","c","u","r","s","i","v","e">>,
      <<"d","e","f","a","u","l","t","_","f","i","l","e","_","t","y","p","e","s">>,
      <<"_","s","u","b","d","i","r","_","n","a","m","e","_","t","o","_","p","a","t","h">> }

\* dict.get(k), 0 for None
Get(m, k) == IF k \in DOMAIN m THEN m[k] ELSE 0

\* Resolve without the sanitized and lowercase fallbacks
ResolveExactOnly(m, name) == Get(m, name)

\* __getattr__, lines 133-141: the child directory a name resolves to, 0 for None
Resolve(m, name) ==
    IF Get(m, name) # 0 THEN Get(m, name)
    ELSE LET sanitized == _sanitize_attribute_name(name)
         IN  IF Get(m, sanitized) # 0 THEN Get(m, sanitized)
             ELSE IF Get(m, Lower(name)) # 0 THEN Get(m, Lower(name))
             ELSE Get(m, Lower(sanitized))

\* What a call returns or raises
Outcome(op, name, ft, kind, value) ==
    [op |-> op, name |-> name, ft |-> ft, kind |-> kind, value |-> value,
     unreadable |-> {}]

NoCall == Outcome("none", <<>>, PNone, "none", <<>>)

\* __getattr__: the files of the resolved subdirectory, or AttributeError
__getattr__(m, name) ==
    LET d == Resolve(m, name)
    IN  IF d # 0
        THEN Outcome("getattr", name, PNone, "list",
                     _filter_files(_iter_files(d, recursive),
                                   _ensure_patterns(default_file_types)))
        ELSE Outcome("getattr", name, PNone, "AttributeError", <<>>)

\* getattr(self, name): normal lookup first, __getattr__ only when it fails
GetAttribute(m, name) ==
    IF name \in BuiltinMembers
    THEN Outcome("getattr", name, PNone, "builtin", <<>>)
    ELSE __getattr__(m, name)

\* hasattr(self, cand): getattr did not raise AttributeError
HasAttr(m, cand) == GetAttribute(m, cand).kind # "AttributeError"

\* Register without the hasattr check of line 118
RegisterNoHasAttr(m, cand, child) ==
    IF Get(m, cand) # 0 /\ Get(m, cand) # child THEN m
    ELSE [k \in DOMAIN m \cup {cand} |-> IF k = cand THEN child ELSE m[k]]

\* Register where the last child directory to generate a key takes it over
RegisterLastWins(m, cand, child) ==
    IF cand \in BuiltinMembers THEN m
    ELSE [k \in DOMAIN m \cup {cand} |-> IF k = cand THEN child ELSE m[k]]

\* The body of "for cand in candidates", lines 118-127
Register(m, cand, child) ==
    IF HasAttr(m, cand) THEN m
    ELSE IF Get(m, cand) # 0 /\ Get(m, cand) # child THEN m
    ELSE [k \in DOMAIN m \cup {cand} |-> IF k = cand THEN child ELSE m[k]]

\* "for cand in candidates", over the first n candidates
RECURSIVE RegisterAll(_, _, _, _)
RegisterAll(m, cands, n, child) ==
    IF n = 0 THEN m
    ELSE Register(RegisterAll(m, cands, n - 1, child), cands[n], child)

\* root.iterdir() as __post_init__ walks it
Listing == IterDir(0)

\* The mapping before any key is registered
EmptyMap == [k \in {} |-> 0]

\* The text of a file: every file holds a text of its own
ReadText(path) == [text_of |-> path]

\* ReadLoop with break in place of continue: the first failure ends the loop
RECURSIVE ReadLoopStopsAtFailure(_, _)
ReadLoopStopsAtFailure(fl, bad) ==
    IF fl = <<>> THEN <<>>
    ELSE IF Head(fl) \in bad THEN <<>>
    ELSE <<ReadText(Head(fl))>> \o ReadLoopStopsAtFailure(Tail(fl), bad)

\* The loop of read_all: a file whose read_text raises is logged and skipped
RECURSIVE ReadLoop(_, _)
ReadLoop(fl, bad) ==
    IF fl = <<>> THEN <<>>
    ELSE IF Head(fl) \in bad THEN ReadLoop(Tail(fl), bad)
    ELSE <<ReadText(Head(fl))>> \o ReadLoop(Tail(fl), bad)

\* The patterns all and read_all filter by
EffectivePatterns(ft) == _ensure_patterns(PyOr(ft, default_file_types))

\* An except branch that logs and re-raises
ExceptBranchReraises(m) == [pc |-> "error", mapping |-> m, kind |-> "OSError"]

\* The except branch of __post_init__: log a warning, keep what was registered
ExceptBranch(m) == [pc |-> "returned", mapping |-> m, kind |-> "instance"]

(***************************************************************************)
(* Bounds and inputs                                                       *)
(***************************************************************************)
MaxChildren == 3      \* child directories of the root, in the trees of SpecKeys

MaxNodes == 3         \* entries below the root, in the trees of Spec

MaxUnreadable == 1    \* files whose read_text raises in one read_all call

MaxFiles == 3         \* length of the files argument of _filter_files

MaxPatterns == 2      \* length of the patterns argument of _filter_files

\* Names of child directories whose candidate keys collide with one another or
\* with a built-in member
DirNames ==
    { <<"a","b">>, <<"A","b">>, <<"x",".","A","b">>,
      <<"a","-","b">>, <<"a",".","b">>,
      <<"a","l","l">>, <<"A","l","l">>, <<"1","a">> }

\* Entries of the nested trees
TreeEntries ==
    { [name |-> <<"D","-","e">>, kind |-> "dir"],
      [name |-> <<"a",".","p">>, kind |-> "file"],
      [name |-> <<"b",".","m">>, kind |-> "file"] }

\* Names requested through attribute access, in SpecKeys
Requests ==
    DirNames \cup
    { <<"A","B">>, <<"A","-","-","B">>, <<"a","_","b">>, <<"_","1","a">>,
      <<"r","o","o","t">>, <<"z">> }

\* Names requested through attribute access, in Spec
TreeRequests ==
    { <<"D","_","e">>, <<"D","-","e">>, <<"D","_","E">>, <<"D","-","-","E">>,
      <<"a",".","p">>, <<"r","e","a","d","_","a","l","l">>, <<"z">> }

\* Values passed as file_types to all and read_all
FileTypeArgs ==
    { PNone, PStr(<<>>), PSeq(<<>>), PStr(<<"*",".","p">>),
      PSeq(<< <<"*",".","m">>, <<"a","*">> >>) }

\* Values passed as file_types to dirclass()
FactoryFileTypes ==
    { PNone, PSeq(<<>>), PStr(<<"*",".","p">>),
      PSeq(<< <<"*",".","m">>, <<"b","*">> >>) }

\* Sequences over S of length at most n
RECURSIVE SeqsUpTo(_, _)
SeqsUpTo(S, n) ==
    IF n = 0 THEN {<<>>}
    ELSE LET shorter == SeqsUpTo(S, n - 1)
         IN  shorter \cup {Append(q, x) : q \in {r \in shorter : Len(r) = n - 1}, x \in S}

\* A tree is well formed: a parent is an earlier directory, siblings have distinct names
WellFormed(t) ==
    /\ \A i \in DOMAIN t : t[i].parent = 0 \/ t[t[i].parent].kind = "dir"
    /\ \A i, j \in DOMAIN t :
          (i # j /\ t[i].parent = t[j].parent) => t[i].name # t[j].name

\* Name-collision trees: child directories of the root, each holding one file
CollisionTrees ==
    { [i \in 1..(2 * Len(q)) |->
          IF i <= Len(q)
          THEN [parent |-> 0, name |-> q[i], kind |-> "dir"]
          ELSE [parent |-> i - Len(q), name |-> <<"a",".","p">>, kind |-> "file"]]
      : q \in {r \in SeqsUpTo(DirNames, MaxChildren) :
                  \A i, j \in DOMAIN r : i # j => r[i] # r[j]} }

\* Nested trees: any well-formed tree of at most MaxNodes entries
NestedTrees ==
    UNION { {t \in [1..n -> [parent : 0..(n - 1), name : {e.name : e \in TreeEntries},
                             kind : {"dir", "file"}]] :
                /\ \A i \in 1..n : t[i].parent < i
                /\ \A i \in 1..n : [name |-> t[i].name, kind |-> t[i].kind] \in TreeEntries
                /\ WellFormed(t)}
            : n \in 0..MaxNodes }

(***************************************************************************)
(* Initial states: a path, the tree below it, the arguments of dirclass()  *)
(***************************************************************************)
NoFilterCall == files = <<>> /\ patterns = <<>> /\ matched = <<>>

\* What holds before dirclass() is called, whatever the tree
NotConstructed ==
    /\ pc = "start"
    /\ recursive = TRUE
    /\ default_file_types = PNone
    /\ _subdir_name_to_path = EmptyMap
    /\ idx = 0
    /\ indexFailed = FALSE
    /\ result = NoCall
    /\ NoFilterCall

\* Spec: a path that is missing, a file, or a directory holding a nested tree
Init ==
    /\ rootKind \in {"missing", "file", "dir"}
    /\ \/ /\ rootKind # "dir"
          /\ fs = <<>>
          /\ args \in [recursive : {TRUE}, file_types : {PStr(Star)}]
       \/ /\ rootKind = "dir"
          /\ fs \in NestedTrees
          /\ args \in [recursive : BOOLEAN, file_types : FactoryFileTypes]
    /\ NotConstructed

\* SpecKeys: a directory whose child directories have colliding names
InitKeys ==
    /\ rootKind = "dir"
    /\ fs \in CollisionTrees
    /\ args \in [recursive : {TRUE}, file_types : {PStr(Star)}]
    /\ NotConstructed

(***************************************************************************)
(* dirclass(): lines 154-168                                               *)
(***************************************************************************)
\* The check without its "not root.is_dir()" half
NotADirectoryMissingOnly(kind) == kind = "missing"

\* "not root.exists() or not root.is_dir()"
NotADirectory(kind) == kind = "missing" \/ kind # "dir"

dirclass ==
    /\ pc = "start"
    /\ IF NotADirectory(rootKind)
       THEN /\ pc' = "error"
            /\ result' = Outcome("dirclass", <<>>, args.file_types, "NotADirectoryError", <<>>)
            /\ UNCHANGED <<recursive, default_file_types>>
       ELSE /\ pc' = "indexing"
            /\ recursive' = args.recursive
            /\ default_file_types' = PSeq(_ensure_patterns(args.file_types))
            /\ UNCHANGED result
    /\ UNCHANGED <<rootKind, args, fs, _subdir_name_to_path, idx, indexFailed,
                   files, patterns, matched>>

(***************************************************************************)
(* DirClass.__post_init__: lines 90-129, one iteration of its loop a step  *)
(***************************************************************************)
\* One iteration of "for child in self.root.iterdir()"
IndexStep ==
    /\ pc = "indexing"
    /\ idx < Len(Listing)
    /\ LET child == Listing[idx + 1]
           cands == Candidates(fs[child].name)
       IN  _subdir_name_to_path' =
              IF IsDir(child)
              THEN RegisterAll(_subdir_name_to_path, cands, Len(cands), child)
              ELSE _subdir_name_to_path
    /\ idx' = idx + 1
    /\ UNCHANGED <<pc, rootKind, args, fs, recursive, default_file_types, indexFailed,
                   result, files, patterns, matched>>

\* iterdir() or is_dir() raises at the current position: the except branch
ListingFails ==
    /\ pc = "indexing"
    /\ LET x == ExceptBranch(_subdir_name_to_path)
       IN  /\ pc' = x.pc
           /\ _subdir_name_to_path' = x.mapping
           /\ result' = Outcome("dirclass", <<>>, args.file_types, x.kind, <<>>)
    /\ indexFailed' = TRUE
    /\ UNCHANGED <<rootKind, args, fs, recursive, default_file_types, idx,
                   files, patterns, matched>>

\* hasattr(self, cands[j]) reaches __getattr__, which resolves the candidate to a
\* registered subdirectory whose enumeration raises: the except branch, after the
\* first j - 1 candidates of the child were handled
InspectFails ==
    /\ pc = "indexing"
    /\ idx < Len(Listing)
    /\ IsDir(Listing[idx + 1])
    /\ LET child == Listing[idx + 1]
           cands == Candidates(fs[child].name)
       IN  \E j \in DOMAIN cands :
              LET m == RegisterAll(_subdir_name_to_path, cands, j - 1, child)
                  x == ExceptBranch(m)
              IN  /\ cands[j] \notin BuiltinMembers
                  /\ Resolve(m, cands[j]) # 0
                  /\ pc' = x.pc
                  /\ _subdir_name_to_path' = x.mapping
                  /\ result' = Outcome("dirclass", <<>>, args.file_types, x.kind, <<>>)
    /\ indexFailed' = TRUE
    /\ UNCHANGED <<rootKind, args, fs, recursive, default_file_types, idx,
                   files, patterns, matched>>

\* The loop ends: the constructor returns the instance
IndexDone ==
    /\ pc = "indexing"
    /\ idx = Len(Listing)
    /\ pc' = "returned"
    /\ result' = Outcome("dirclass", <<>>, args.file_types, "instance", <<>>)
    /\ UNCHANGED <<rootKind, args, fs, recursive, default_file_types,
                   _subdir_name_to_path, idx,
                   indexFailed, files, patterns, matched>>

(***************************************************************************)
(* The calls on an instance                                                *)
(***************************************************************************)
\* DirClass.all: lines 60-71
all(ft) ==
    /\ pc = "ready"
    /\ pc' = "returned"
    /\ files' = _iter_files(0, recursive)
    /\ patterns' = EffectivePatterns(ft)
    /\ matched' = _filter_files(files', patterns')
    /\ result' = Outcome("all", <<>>, ft, "list", matched')
    /\ UNCHANGED <<rootKind, args, fs, recursive, default_file_types,
                   _subdir_name_to_path, idx,
                   indexFailed>>

\* DirClass.read_all: lines 73-87; read_text raises for the files in bad
read_all(ft, bad) ==
    /\ pc = "ready"
    /\ pc' = "returned"
    /\ files' = _iter_files(0, recursive)
    /\ patterns' = EffectivePatterns(ft)
    /\ matched' = _filter_files(files', patterns')
    /\ bad \subseteq Range(matched')
    /\ result' = [Outcome("read_all", <<>>, ft, "list", ReadLoop(matched', bad))
                     EXCEPT !.unreadable = bad]
    /\ UNCHANGED <<rootKind, args, fs, recursive, default_file_types,
                   _subdir_name_to_path, idx,
                   indexFailed>>

\* instance.<name>: lines 131-146
GetAttr(name) ==
    /\ pc = "ready"
    /\ pc' = "returned"
    /\ result' = GetAttribute(_subdir_name_to_path, name)
    /\ IF result'.kind = "list"
       THEN /\ files' = _iter_files(Resolve(_subdir_name_to_path, name), recursive)
            /\ patterns' = _ensure_patterns(default_file_types)
            /\ matched' = result'.value
       ELSE UNCHANGED <<files, patterns, matched>>
    /\ UNCHANGED <<rootKind, args, fs, recursive, default_file_types,
                   _subdir_name_to_path, idx,
                   indexFailed>>

\* DirClass.__dir__: lines 148-151 (the sorted list as the set of its members)
__dir__ ==
    /\ pc = "ready"
    /\ pc' = "returned"
    /\ result' = Outcome("dir", <<>>, PNone, "names",
                          BuiltinMembers \cup DOMAIN _subdir_name_to_path)
    /\ UNCHANGED <<rootKind, args, fs, recursive, default_file_types,
                   _subdir_name_to_path, idx,
                   indexFailed, files, patterns, matched>>

\* The caller is done with what dirclass() or a call on the instance returned;
\* the instance is idle again
Return ==
    /\ pc = "returned"
    /\ pc' = "ready"
    /\ result' = NoCall
    /\ files' = <<>>
    /\ patterns' = <<>>
    /\ matched' = <<>>
    /\ UNCHANGED <<rootKind, args, fs, recursive, default_file_types,
                   _subdir_name_to_path, idx,
                   indexFailed>>

\* The files read_text may fail for in one read_all call
UnreadableSets ==
    {b \in SUBSET Range(_iter_files(0, recursive)) : Cardinality(b) <= MaxUnreadable}

\* Spec: every call, with every file_types value, on the nested trees (no candidate
\* key of a nested tree resolves to another child, so hasattr cannot raise there)
Next ==
    \/ dirclass
    \/ IndexStep
    \/ ListingFails
    \/ IndexDone
    \/ \E ft \in FileTypeArgs : all(ft)
    \/ \E ft \in FileTypeArgs : \E bad \in UnreadableSets : read_all(ft, bad)
    \/ \E name \in TreeRequests : GetAttr(name)
    \/ __dir__
    \/ Return

Spec == Init /\ [][Next]_vars

\* SpecKeys: construction with every failure, and every request, on the
\* name-collision trees
NextKeys ==
    \/ dirclass
    \/ IndexStep
    \/ ListingFails
    \/ InspectFails
    \/ IndexDone
    \/ all(PNone)
    \/ \E bad \in UnreadableSets : read_all(PNone, bad)
    \/ \E name \in Requests : GetAttr(name)
    \/ __dir__
    \/ Return

SpecKeys == InitKeys /\ [][NextKeys]_vars

(***************************************************************************)
(* _filter_files on its own: any files, any non-empty patterns             *)
(***************************************************************************)
FilterPaths ==
    { << <<"a",".","p">> >>, << <<"d">>, <<"a",".","p">> >>,
      << <<"b",".","m">> >>, << <<"d">>, <<"a","b">> >> }

FilterPatterns ==
    { Star, <<"*",".","p">>, <<"a","*">>, <<"?",".","m">>,
      <<"[","a","b","]",".","p">>, <<"[","!","a","]","*">> }

InitFilter ==
    /\ pc = "filter"
    /\ files \in SeqsUpTo(FilterPaths, MaxFiles)
    /\ patterns \in SeqsUpTo(FilterPatterns, MaxPatterns) \ {<<>>}
    /\ matched = <<>>
    /\ rootKind = "dir"
    /\ args = [recursive |-> TRUE, file_types |-> PNone]
    /\ fs = <<>>
    /\ recursive = TRUE
    /\ default_file_types = PNone
    /\ _subdir_name_to_path = EmptyMap
    /\ idx = 0
    /\ indexFailed = FALSE
    /\ result = NoCall

FilterFiles ==
    /\ pc = "filter"
    /\ matched' = _filter_files(files, patterns)
    /\ pc' = "filtered"
    /\ UNCHANGED <<rootKind, args, fs, recursive, default_file_types,
                   _subdir_name_to_path, idx,
                   indexFailed, result, files, patterns>>

NextFilter == FilterFiles

SpecFilter == InitFilter /\ [][NextFilter]_vars

(***************************************************************************)
(* Properties                                                              *)
(***************************************************************************)
\* f's base name matches at least one of the patterns pats
MatchesAny(f, pats) == \E i \in DOMAIN pats : Fnmatch(BaseName(f), pats[i])

\* The subsequence of fl whose base names match at least one of pats
Matching(fl, pats) ==
    LET Test(f) == MatchesAny(f, pats)
    IN  SelectSeq(fl, Test)

\* C1: for any files F and non-empty patterns P, _filter_files returns exactly the
\* subsequence of F, in F's order, of the paths whose base name matches at least one
\* pattern: once per occurrence in F, and nothing that matches no pattern.
C1_FilterIsMatchingSubsequence ==
    pc = "filtered" => matched = Matching(files, patterns)

\* C1 witness: three files filtered by two patterns; one file matches both patterns,
\* one matches neither, and the result holds two paths.
C1_Witness ==
    /\ pc = "filtered"
    /\ Len(files) = 3
    /\ Len(patterns) = 2
    /\ patterns[1] # patterns[2]
    /\ \E i \in DOMAIN files :
          Fnmatch(BaseName(files[i]), patterns[1]) /\ Fnmatch(BaseName(files[i]), patterns[2])
    /\ \E i \in DOMAIN files : ~MatchesAny(files[i], patterns)
    /\ Len(matched) = 2

\* C8: dirclass() raises NotADirectoryError and returns no instance whenever the
\* resolved path is missing or is not a directory; an instance exists only for an
\* existing directory.
C8_FactoryRejectsNonDirectory ==
    /\ (pc # "start" /\ rootKind # "dir") =>
          (pc = "error" /\ result.kind = "NotADirectoryError")
    /\ (pc \in {"indexing", "ready", "returned"}) => rootKind = "dir"
    /\ result.kind = "instance" => rootKind = "dir"

\* C8 witness: the path is an existing file and the factory has raised.
C8_Witness == pc = "error" /\ rootKind = "file" /\ result.kind = "NotADirectoryError"

\* The files under the root as the file system has them: every file at any depth
\* when rec, the files directly inside the root otherwise
FilesUnderRoot(rec) ==
    {PathOf(n) : n \in {k \in Nodes : IsFile(k) /\ (rec \/ fs[k].parent = 0)}}

\* The sequence q lists exactly the members of the set S, each once
ListsExactly(q, S) == Range(q) = S /\ Len(q) = Cardinality(S)

\* C7: all() without an override on an instance whose default patterns are the
\* match-all ["*"] returns, ignoring order, exactly the files under the root: with
\* the recursion flag every file at any depth and no directory, without it the files
\* directly inside the root only; each file once.
C7_AllListsEveryFile ==
    (/\ pc = "returned"
     /\ result.op = "all"
     /\ result.ft.t = "none"
     /\ default_file_types.v = <<Star>>)
    => ListsExactly(result.value, FilesUnderRoot(recursive))

\* C7 witness: a recursive all() over a tree with a file directly in the root and a
\* file inside a subdirectory; both are listed.
C7_Witness ==
    /\ pc = "returned"
    /\ result.op = "all"
    /\ result.ft.t = "none"
    /\ default_file_types.v = <<Star>>
    /\ recursive
    /\ \E n \in Nodes : IsFile(n) /\ fs[n].parent = 0
    /\ \E n \in Nodes : IsFile(n) /\ fs[n].parent # 0
    /\ Len(result.value) = 2

\* The contents read_all is to return: the texts of the matched files that can be
\* read, in the order of the matched-path list
Readable(fl, bad) ==
    LET Test(f) == f \notin bad
        ok == SelectSeq(fl, Test)
    IN  [i \in DOMAIN ok |-> ReadText(ok[i])]

\* C4: read_all never raises for a file that cannot be read: it returns the contents
\* of exactly the files that read successfully, in the order of the matched-path
\* list, the files after a failing one included; never more than were matched.
C4_ReadAllSkipsUnreadable ==
    (pc = "returned" /\ result.op = "read_all") =>
        /\ result.kind = "list"
        /\ result.value = Readable(matched, result.unreadable)
        /\ Len(result.value) <= Len(matched)

\* C4 witness: read_all where a matched file fails to read and a file matched after
\* it is read and returned.
C4_Witness ==
    /\ pc = "returned"
    /\ result.op = "read_all"
    /\ \E i, j \in DOMAIN matched :
          /\ i < j
          /\ matched[i] \in result.unreadable
          /\ matched[j] \notin result.unreadable
          /\ ReadText(matched[j]) \in Range(result.value)

\* C3: no key of the subdirectory mapping is a built-in member name, and requesting a
\* built-in member name returns the built-in member, never a subdirectory's files.
C3_BuiltinPrecedence ==
    /\ DOMAIN _subdir_name_to_path \cap BuiltinMembers = {}
    /\ (pc = "returned" /\ result.op = "getattr" /\ result.name \in BuiltinMembers)
          => result.kind = "builtin"

\* C3 witness: the root has a child directory named "all" next to one named "All",
\* indexing finished without failure, and "all" was requested.
C3_Witness ==
    /\ pc = "returned"
    /\ ~indexFailed
    /\ result.op = "getattr"
    /\ result.name = <<"a","l","l">>
    /\ \E n \in Nodes : fs[n].parent = 0 /\ IsDir(n) /\ fs[n].name = <<"a","l","l">>
    /\ <<"A","l","l">> \in DOMAIN _subdir_name_to_path

\* Node k lies below directory d, at any depth
RECURSIVE IsBelow(_, _)
IsBelow(k, d) == k # 0 /\ (fs[k].parent = d \/ IsBelow(fs[k].parent, d))

\* The files under directory d as the file system has them
FilesUnder(d, rec) ==
    {PathOf(n) : n \in {k \in Nodes :
                           IsFile(k) /\ (IF rec THEN IsBelow(k, d) ELSE fs[k].parent = d)}}

\* The keys the accessor is to try for a requested name, in order
LookupKeys(n) ==
    <<n, _sanitize_attribute_name(n), Lower(n), Lower(_sanitize_attribute_name(n))>>

\* C6: for a requested name n that is no built-in member the accessor tries the keys
\* n, sanitize(n), lowercase(n), lowercase(sanitize(n)) in that order and uses the
\* first that is a key of the mapping: it returns the files under that subdirectory
\* that match the instance's default patterns, honoring the recursion flag; when none
\* is a key it raises the unknown-member error for n and returns no list.
C6_AccessorResolution ==
    (pc = "returned" /\ result.op = "getattr" /\ result.name \notin BuiltinMembers) =>
        LET keys == LookupKeys(result.name)
            hits == {i \in DOMAIN keys : keys[i] \in DOMAIN _subdir_name_to_path}
        IN  IF hits = {}
            THEN result.kind = "AttributeError" /\ result.value = <<>>
            ELSE LET first == CHOOSE i \in hits : \A j \in hits : i <= j
                     d     == _subdir_name_to_path[keys[first]]
                 IN  /\ result.kind = "list"
                     /\ ListsExactly(result.value,
                                     {f \in FilesUnder(d, recursive) :
                                         MatchesAny(f, default_file_types.v)})

\* C6 witness: "D--E" is requested where only its lowercase-sanitized form "d_e" is
\* among the four keys tried and is a key; the default patterns are ["*.p"] and the
\* files of the child directory "D-e" that match are returned, a file not matching
\* left out.
C6_Witness ==
    /\ pc = "returned"
    /\ result.op = "getattr"
    /\ result.name = <<"D","-","-","E">>
    /\ <<"d","_","e">> \in DOMAIN _subdir_name_to_path
    /\ default_file_types.v = << <<"*",".","p">> >>
    /\ result.kind = "list"
    /\ result.value # <<>>
    /\ FilesUnder(_subdir_name_to_path[<<"d","_","e">>], recursive) # Range(result.value)

\* The patterns C5 has all and read_all filter by
ClaimedPatterns(ft) ==
    IF ft.t = "none" THEN default_file_types.v
    ELSE IF ft.t = "str" THEN <<ft.v>>
    ELSE IF ft.v = <<>> THEN <<Star>>
    ELSE ft.v

\* C5: all and read_all filter by the override whenever one is given (anything but
\* None), normalized as in construction: a string becomes a one-element sequence, an
\* empty sequence becomes ["*"], a non-empty sequence is used as it is; the default
\* patterns of the instance are used only when no override is given.
C5_OverrideUsedWhenProvided ==
    (pc = "returned" /\ result.op \in {"all", "read_all"}) =>
        matched = Matching(files, ClaimedPatterns(result.ft))

\* The child directory the loop of __post_init__ is at
CurrentChild == Listing[idx + 1]

\* C9: registration is insert-if-absent: when a child directory c is processed, every
\* candidate key of c that is no built-in member name and is not yet a key of the
\* mapping is registered and maps to c, whatever other keys the mapping holds.
C9_InsertIfAbsent ==
    [][(/\ pc = "indexing"
        /\ pc' = "indexing"
        /\ idx' = idx + 1
        /\ IsDir(CurrentChild))
       => \A k \in Range(Candidates(fs[CurrentChild].name)) :
             (k \notin BuiltinMembers /\ k \notin DOMAIN _subdir_name_to_path)
                => /\ k \in DOMAIN _subdir_name_to_path'
                   /\ _subdir_name_to_path'[k] = CurrentChild]_vars

\* The child directories of the root that generate the candidate key k
Producers(k) ==
    {n \in Nodes : fs[n].parent = 0 /\ IsDir(n) /\ k \in Range(Candidates(fs[n].name))}

\* What the accessor returns for child directory d
FilesOfChild(d) ==
    _filter_files(_iter_files(d, recursive), _ensure_patterns(default_file_types))

\* A key, once bound, keeps its child directory
KeysStable ==
    \A k \in DOMAIN _subdir_name_to_path :
        /\ k \in DOMAIN _subdir_name_to_path'
        /\ _subdir_name_to_path'[k] = _subdir_name_to_path[k]

\* The first child directory, in listing order, that generates the candidate key k
FirstProducer(k) == CHOOSE n \in Producers(k) : \A o \in Producers(k) : n <= o

\* Two different child directories generate the requested name as a candidate key
SharedKeyRequested ==
    /\ pc = "returned"
    /\ result.op = "getattr"
    /\ result.name \notin BuiltinMembers
    /\ Cardinality(Producers(result.name)) >= 2

C10_IndexingFailureAbsorbed ==
    /\ [][(pc = "indexing" /\ indexFailed')
          => /\ pc' = "returned"
             /\ result'.kind = "instance"
             /\ KeysStable
             /\ \A k \in DOMAIN _subdir_name_to_path' \ DOMAIN _subdir_name_to_path :
                   /\ idx < Len(Listing)
                   /\ _subdir_name_to_path'[k] = CurrentChild
                   /\ k \in Range(Candidates(fs[CurrentChild].name))]_vars
    /\ [](indexFailed => pc \in {"ready", "returned"})
    /\ []((indexFailed /\ pc = "returned" /\ result.op \in {"all", "read_all"})
             => result.kind = "list")

\* C10 witness: indexing failed after a key was registered, and read_all was called
\* on the instance and returned a file's text.
C10_Witness ==
    /\ indexFailed
    /\ _subdir_name_to_path # EmptyMap
    /\ pc = "returned"
    /\ result.op = "read_all"
    /\ result.value # <<>>

====
